---- MODULE Spec2Model ----
(***************************************************************************)
(* Persistence and alert-scheduling core of the purchase tracker:          *)
(* app/core/models.py, app/core/db.py, app/core/alerts.py,                 *)
(* app/core/storage.py and the handlers of app/ui/main_window.py that run  *)
(* them inside one get_conn block.                                         *)
(*                                                                         *)
(* The committed database is the variable db; every handler runs its body  *)
(* on a working copy and get_conn decides what is committed.  Dates are    *)
(* day numbers (the code compares ISO yyyy-MM-dd strings, whose            *)
(* lexicographic order is the calendar order).  Rows carry the columns the *)
(* operations below read or write: an item its id and the seven columns    *)
(* add_item requires, an alert all its columns, a file its id, item and    *)
(* path, an audit entry its action and details (and, in the audit tables   *)
(* of QuerySpec, its ts in seconds, which only recent_actions reads).      *)
(* QuerySpec runs the read-only queries, and CallSpec the functions of     *)
(* models.py one call at a time, on tables that add_item and check_due     *)
(* have stored.                                                            *)
(* The archive directory is the variable disk: one                         *)
(* entry per stored file, with the number of times it was written since it *)
(* last came to exist.  The notifications are the variable shown: for each *)
(* alert id, how many times toast returned for it since the alert was last *)
(* armed (counted up to MaxShown); this history is kept by NotifySpec only *)
(* and is NoHistory throughout Spec and LiveSpec.                          *)
(***************************************************************************)
EXTENDS Integers, Sequences, FiniteSets, TLC

VARIABLES db, disk, today, last, shown

vars == <<db, disk, today, last, shown>>

(* ------------------------------ bounds --------------------------------- *)
MaxAudit == 3
MaxToday == 1
MaxDay == 9
MaxShown == 2
MaxRows == 2
MaxFilters == 2
MaxLog == 6
MaxTs == 2

(* ------------------------- program constants --------------------------- *)
NULL == -1
ReturnDays == 7
WarrantyDays == 60
RecentLimit == 5

Days == {1, MaxDay}
RequiredFields ==
  {"title", "store", "category", "purchase_date", "total_amount",
   "return_until", "warranty_until"}
Srcs == [content : {"c1"}, exists : BOOLEAN]
SrcLists == {<<>>} \cup {<<src>> : src \in Srcs}
AlertTypes == {"return", "warranty"}
AlertIdRange == 1..(2 * MaxAudit)

(* ------------------------------- clock --------------------------------- *)
Now == today

DateNow == today

(* --------------------- outcome of running statements ------------------- *)
Ok(d, fs, ret) == [d |-> d, fs |-> fs, err |-> "none", ret |-> ret]

Raise(d, fs, e) == [d |-> d, fs |-> fs, err |-> e, ret |-> 0]

(* ---------------------------- schema (db.py) --------------------------- *)
EmptyDb ==
  [items |-> {}, files |-> {}, alerts |-> {}, audit |-> <<>>,
   seqItems |-> 0, seqFiles |-> 0, seqAlerts |-> 0]

ItemIds(d) == {i.id : i \in d.items} \cup {d.seqItems + 1}

FileIds(d) == {f.id : f \in d.files} \cup {d.seqFiles + 1}

ItemExists(d, item_id) == \E i \in d.items : i.id = item_id

ForeignKeyOk_off(d, item_id) == TRUE

ForeignKeyOk(d, item_id) == ItemExists(d, item_id)

CascadeDelete_none(d, item_id) == d

CascadeDelete(d, item_id) ==
  [d EXCEPT !.files = {f \in @ : f.item_id # item_id},
            !.alerts = {a \in @ : a.item_id # item_id}]

get_conn_commits_always(d, r) == r.d

get_conn(d, r) == IF r.err = "none" THEN r.d ELSE d

(* ------------------------------ models.py ------------------------------ *)
log_action_prepend(d, fs, action, details, inject) ==
  IF inject THEN Raise(d, fs, "OperationalError")
  ELSE Ok([d EXCEPT !.audit = <<[action |-> action, details |-> details]>> \o @], fs, 0)

log_action(d, fs, action, details, inject) ==
  IF inject THEN Raise(d, fs, "OperationalError")
  ELSE Ok([d EXCEPT !.audit = Append(@, [action |-> action, details |-> details])], fs, 0)

MinId(rows) == CHOOSE m \in {a.id : a \in rows} : \A a \in rows : m <= a.id

InsertAlert(d, fs, item_id, alert_type, due) ==
  IF ~ForeignKeyOk(d, item_id)
  THEN Raise(d, fs, "IntegrityError")
  ELSE Ok([d EXCEPT !.alerts = @ \cup {[id |-> d.seqAlerts + 1, item_id |-> item_id,
                                       type |-> alert_type, due_on |-> due, sent_at |-> NULL]},
                    !.seqAlerts = @ + 1],
          fs, 0)

SyncOne_always_insert(r, item_id, alert_type, due) ==
  IF r.err # "none" THEN r ELSE InsertAlert(r.d, r.fs, item_id, alert_type, due)

SyncOne_ignores_type(r, item_id, alert_type, due) ==
  IF r.err # "none" THEN r
  ELSE LET d == r.d
           rows == {a \in d.alerts : a.item_id = item_id}
       IN IF rows # {}
          THEN Ok([d EXCEPT !.alerts =
                     {IF a.id = MinId(rows) THEN [a EXCEPT !.due_on = due, !.sent_at = NULL] ELSE a : a \in @}],
                  r.fs, 0)
          ELSE InsertAlert(d, r.fs, item_id, alert_type, due)

SyncOne_rearm_on_change(r, item_id, alert_type, due) ==
  IF r.err # "none" THEN r
  ELSE LET d == r.d
           rows == {a \in d.alerts : a.item_id = item_id /\ a.type = alert_type}
       IN IF rows # {}
          THEN Ok([d EXCEPT !.alerts =
                     {IF a.id = MinId(rows) /\ a.due_on # due
                      THEN [a EXCEPT !.due_on = due, !.sent_at = NULL] ELSE a : a \in @}],
                  r.fs, 0)
          ELSE InsertAlert(d, r.fs, item_id, alert_type, due)

SyncOne(r, item_id, alert_type, due) ==
  IF r.err # "none" THEN r
  ELSE LET d == r.d
           rows == {a \in d.alerts : a.item_id = item_id /\ a.type = alert_type}
       IN IF rows # {}
          THEN Ok([d EXCEPT !.alerts =
                     {IF a.id = MinId(rows) THEN [a EXCEPT !.due_on = due, !.sent_at = NULL] ELSE a : a \in @}],
                  r.fs, 0)
          ELSE InsertAlert(d, r.fs, item_id, alert_type, due)

sync_alerts(d, fs, item_id, return_until, warranty_until) ==
  SyncOne(SyncOne(Ok(d, fs, 0), item_id, "return", return_until),
               item_id, "warranty", warranty_until)

add_file(d, fs, item_id, file_data) ==
  IF ~ForeignKeyOk(d, item_id) THEN Raise(d, fs, "IntegrityError")
  ELSE LET d1 == [d EXCEPT !.files = @ \cup {[id |-> d.seqFiles + 1, item_id |-> item_id,
                                               path |-> file_data.path]},
                           !.seqFiles = @ + 1]
           r == log_action(d1, fs, "file_added", [item_id |-> item_id, path |-> file_data.path], FALSE)
       IN [r EXCEPT !.ret = d.seqFiles + 1]

RECURSIVE AddFiles(_, _, _, _)
AddFiles(r, item_id, files, k) ==
  IF r.err # "none" \/ k > Len(files) THEN r
  ELSE AddFiles(add_file(r.d, r.fs, item_id, files[k]), item_id, files, k + 1)

add_item_stores_what_is_given(d, fs, data, files, inject) ==
  LET item_id == d.seqItems + 1
      d1 == [d EXCEPT !.items = @ \cup {[id |-> item_id] @@ data},
                      !.seqItems = item_id]
  IN IF RequiredFields \ DOMAIN data # {} THEN Ok(d1, fs, item_id)
     ELSE LET r2 == AddFiles(sync_alerts(d1, fs, item_id, data.return_until, data.warranty_until),
                             item_id, files, 1)
          IN IF r2.err # "none" THEN r2
             ELSE LET r3 == log_action(r2.d, fs, "item_created", [item_id |-> item_id], inject)
                  IN IF r3.err # "none" THEN r3 ELSE [r3 EXCEPT !.ret = item_id]

add_item(d, fs, data, files, inject) ==
  IF RequiredFields \ DOMAIN data # {} THEN Raise(d, fs, "KeyError")
  ELSE LET item_id == d.seqItems + 1
           d1 == [d EXCEPT !.items = @ \cup {[id |-> item_id] @@ data},
                           !.seqItems = item_id]
           r2 == AddFiles(sync_alerts(d1, fs, item_id, data.return_until, data.warranty_until),
                          item_id, files, 1)
       IN IF r2.err # "none" THEN r2
          ELSE LET r3 == log_action(r2.d, fs, "item_created", [item_id |-> item_id], inject)
               IN IF r3.err # "none" THEN r3 ELSE [r3 EXCEPT !.ret = item_id]

update_item_without_sync(d, fs, item_id, data, inject) ==
  LET d1 == [d EXCEPT !.items =
                {IF i.id = item_id
                 THEN [i EXCEPT !.title = data.title, !.store = data.store,
                                !.category = data.category,
                                !.purchase_date = data.purchase_date,
                                !.total_amount = data.total_amount,
                                !.return_until = data.return_until,
                                !.warranty_until = data.warranty_until]
                 ELSE i : i \in @}]
  IN log_action(d1, fs, "item_updated", [item_id |-> item_id], inject)

update_item(d, fs, item_id, data, inject) ==
  LET d1 == [d EXCEPT !.items =
                {IF i.id = item_id
                 THEN [i EXCEPT !.title = data.title, !.store = data.store,
                                !.category = data.category,
                                !.purchase_date = data.purchase_date,
                                !.total_amount = data.total_amount,
                                !.return_until = data.return_until,
                                !.warranty_until = data.warranty_until]
                 ELSE i : i \in @}]
      r2 == sync_alerts(d1, fs, item_id, data.return_until, data.warranty_until)
  IN IF r2.err # "none" THEN r2
     ELSE log_action(r2.d, fs, "item_updated", [item_id |-> item_id], inject)

delete_item(d, fs, item_id) ==
  LET d1 == [CascadeDelete(d, item_id) EXCEPT !.items = {i \in @ : i.id # item_id}]
  IN log_action(d1, fs, "item_deleted", [item_id |-> item_id], FALSE)

list_files(d, item_id) == {f \in d.files : f.item_id = item_id}

delete_file(d, fs, file_id) ==
  log_action([d EXCEPT !.files = {f \in @ : f.id # file_id}], fs,
             "file_deleted", [file_id |-> file_id], FALSE)

(* Text columns are sequences of characters, so that LIKE can be computed. *)
Laptop == <<"L", "a", "p", "t", "o", "p">>
Desk == <<"D", "e", "s", "k">>
Fnac == <<"F", "n", "a", "c">>
Ikea == <<"I", "k", "e", "a">>
Tech == <<"T", "e", "c", "h">>
Home == <<"H", "o", "m", "e">>

Amount == 10

ItemData ==
  [title : {Laptop}, store : {Fnac}, category : {Tech}, purchase_date : {0},
   total_amount : {Amount}, return_until : Days, warranty_until : Days]

Without(data, field) == [k \in DOMAIN data \ {field} |-> data[k]]

FieldDicts ==
  ItemData \cup {Without(CHOOSE data \in ItemData : TRUE, field) : field \in RequiredFields}

Fold(c) ==
  CASE c = "D" -> "d" [] c = "F" -> "f" [] c = "H" -> "h" [] c = "I" -> "i"
    [] c = "L" -> "l" [] c = "T" -> "t" [] OTHER -> c

RECURSIVE Like(_, _)
Like(pattern, str) ==
  IF pattern = <<>> THEN str = <<>>
  ELSE IF Head(pattern) = "%"
       THEN Like(Tail(pattern), str) \/ (str # <<>> /\ Like(pattern, Tail(str)))
       ELSE /\ str # <<>>
            /\ Head(pattern) = "_" \/ Fold(Head(pattern)) = Fold(Head(str))
            /\ Like(Tail(pattern), Tail(str))

Truthy(filters, key) == key \in DOMAIN filters /\ filters[key] # <<>>

Given(filters, key) == key \in DOMAIN filters

Where(i, filters) ==
  /\ Truthy(filters, "text") =>
       LET text == <<"%">> \o filters.text \o <<"%">>
       IN Like(text, i.title) \/ Like(text, i.store) \/ Like(text, i.category)
  /\ Truthy(filters, "store") => i.store = filters.store
  /\ Truthy(filters, "category") => i.category = filters.category
  /\ Given(filters, "start") => i.purchase_date >= filters.start
  /\ Given(filters, "end") => i.purchase_date <= filters.end
  /\ Given(filters, "due_return") => i.return_until <= filters.due_return
  /\ Given(filters, "due_warranty") => i.warranty_until <= filters.due_warranty

PurchasedBefore_ascending(a, b) ==
  a.purchase_date < b.purchase_date \/ (a.purchase_date = b.purchase_date /\ a.id < b.id)

PurchasedBefore(a, b) ==
  a.purchase_date > b.purchase_date \/ (a.purchase_date = b.purchase_date /\ a.id < b.id)

OrderByPurchase(rows) ==
  [k \in 1..Cardinality(rows) |->
     CHOOSE a \in rows : Cardinality({b \in rows : PurchasedBefore(b, a)}) = k - 1]

list_items(d, filters) == OrderByPurchase({i \in d.items : Where(i, filters)})

AuditRows(d) == {[id |-> k] @@ d.audit[k] : k \in 1..Len(d.audit)}

LoggedAfter(a, b) == a.ts > b.ts \/ (a.ts = b.ts /\ a.id < b.id)

OrderByTs(rows) ==
  [k \in 1..Cardinality(rows) |->
     CHOOSE a \in rows : Cardinality({b \in rows : LoggedAfter(b, a)}) = k - 1]

Limit(rows, n) == SubSeq(rows, 1, IF Len(rows) < n THEN Len(rows) ELSE n)

recent_actions(d) == Limit(OrderByTs(AuditRows(d)), RecentLimit)

count_stats_unsent_only(d) ==
  [total_items |-> Cardinality(d.items),
   returns_due |-> Cardinality({i \in d.items : /\ i.return_until <= DateNow + ReturnDays
                                                /\ \E a \in d.alerts : /\ a.item_id = i.id
                                                                       /\ a.type = "return"
                                                                       /\ a.sent_at = NULL}),
   warranties_due |-> Cardinality({i \in d.items : i.warranty_until <= DateNow + WarrantyDays})]

count_stats(d) ==
  [total_items |-> Cardinality(d.items),
   returns_due |-> Cardinality({i \in d.items : i.return_until <= DateNow + ReturnDays}),
   warranties_due |-> Cardinality({i \in d.items : i.warranty_until <= DateNow + WarrantyDays})]

DueRows_all_unsent(d) ==
  {a \in d.alerts : ItemExists(d, a.item_id) /\ a.sent_at = NULL}

DueRows(d) ==
  {a \in d.alerts : ItemExists(d, a.item_id) /\ a.sent_at = NULL /\ a.due_on <= DateNow}

Before(a, b) == a.due_on < b.due_on \/ (a.due_on = b.due_on /\ a.id < b.id)

OrderByDue(rows) ==
  [k \in 1..Cardinality(rows) |->
     CHOOSE a \in rows : Cardinality({b \in rows : Before(b, a)}) = k - 1]

list_due_alerts(d) == OrderByDue(DueRows(d))

mark_alert_sent_noop(d, alert_id) == d

mark_alert_sent_all(d, alert_id) ==
  [d EXCEPT !.alerts = {[a EXCEPT !.sent_at = Now] : a \in @}]

mark_alert_sent(d, alert_id) ==
  [d EXCEPT !.alerts = {IF a.id = alert_id THEN [a EXCEPT !.sent_at = Now] ELSE a : a \in @}]

(* ------------------------------ alerts.py ------------------------------ *)
toast(d, fs, fails) == IF fails THEN Raise(d, fs, "ToastError") ELSE Ok(d, fs, 0)

RECURSIVE CheckLoop(_, _, _, _, _)
CheckLoop(d, fs, alerts, k, failAt) ==
  IF k > Len(alerts) THEN Ok(d, fs, 0)
  ELSE LET t == toast(d, fs, k = failAt)
       IN IF t.err # "none" THEN t
          ELSE CheckLoop(mark_alert_sent(d, alerts[k].id), fs, alerts, k + 1, failAt)

check_due(d, fs, failAt) ==
  LET alerts == list_due_alerts(d)
      r == CheckLoop(d, fs, alerts, 1, failAt)
  IN IF r.err # "none" THEN r ELSE [r EXCEPT !.ret = Len(alerts)]

Toasted(alerts, failAt) ==
  {alerts[k].id : k \in {j \in 1..Len(alerts) : failAt = 0 \/ j < failAt}}

(* ------------------------------ storage.py ----------------------------- *)
DestPath(src, item_id) == [dir |-> item_id, name |-> src.content]

Stored(fs) == {[dir |-> f.dir, name |-> f.name] : f \in fs}

PathExists(fs, path) == path \in Stored(fs)

copy2(fs, dest) ==
  {f \in fs : [dir |-> f.dir, name |-> f.name] # dest}
    \cup {[dir |-> dest.dir, name |-> dest.name,
            gen |-> 1 + Cardinality({f \in fs : [dir |-> f.dir, name |-> f.name] = dest})]}

copy_file_to_item_no_copy(d, fs, src, item_id) ==
  IF ~src.exists THEN Raise(d, fs, "FileNotFoundError")
  ELSE Ok(d, fs, [path |-> DestPath(src, item_id)])

copy_file_to_item_always_copies(d, fs, src, item_id) ==
  IF ~src.exists THEN Raise(d, fs, "FileNotFoundError")
  ELSE Ok(d, copy2(fs, DestPath(src, item_id)), [path |-> DestPath(src, item_id)])

copy_file_to_item(d, fs, src, item_id) ==
  IF ~src.exists THEN Raise(d, fs, "FileNotFoundError")
  ELSE LET dest == DestPath(src, item_id)
       IN Ok(d, IF ~PathExists(fs, dest) THEN copy2(fs, dest) ELSE fs, [path |-> dest])

remove_file(fs, path) == {f \in fs : [dir |-> f.dir, name |-> f.name] # path}

RECURSIVE RemoveAll(_, _)
RemoveAll(fs, files) ==
  IF files = {} THEN fs
  ELSE LET f == CHOOSE x \in files : TRUE
       IN RemoveAll(remove_file(fs, f.path), files \ {f})

(* --------------------------- main_window.py ---------------------------- *)
RECURSIVE AttachLoop(_, _, _, _)
AttachLoop(r, item_id, srcs, k) ==
  IF r.err # "none" \/ k > Len(srcs) THEN r
  ELSE LET c == copy_file_to_item(r.d, r.fs, srcs[k], item_id)
       IN IF c.err # "none" THEN c
          ELSE AttachLoop(add_file(c.d, c.fs, item_id, c.ret), item_id, srcs, k + 1)

create_item_body(d, fs, data, srcs, inject) ==
  LET r == add_item(d, fs, data, <<>>, inject)
  IN IF r.err # "none" THEN r
     ELSE LET a == AttachLoop(r, r.ret, srcs, 1)
          IN IF a.err # "none" THEN a ELSE [a EXCEPT !.ret = r.ret]

Record(op, r, arg, again, prevRet) ==
  [op |-> op, ok |-> r.err = "none", err |-> r.err, pre |-> db, arg |-> arg,
   ret |-> r.ret, again |-> again, prevRet |-> prevRet]

Room(n) == Len(db.audit) + n <= MaxAudit

NoHistory == <<>>

Armed(sh, ids) ==
  IF sh = NoHistory THEN sh
  ELSE [id \in AlertIdRange |-> IF id \in ids THEN 0 ELSE sh[id]]

Notified(sh, ids) ==
  IF sh = NoHistory THEN sh
  ELSE [id \in AlertIdRange |->
          IF id \in ids /\ sh[id] < MaxShown THEN sh[id] + 1 ELSE sh[id]]

Init ==
  /\ shown = NoHistory
  /\ db = EmptyDb
  /\ disk = {}
  /\ today = 0
  /\ last = [op |-> "init", ok |-> TRUE, err |-> "none", pre |-> EmptyDb, arg |-> 0,
             ret |-> 0, again |-> FALSE, prevRet |-> 0]

CreateItem ==
  \E data \in ItemData, srcs \in SrcLists, inject \in BOOLEAN :
    /\ Room(1 + Len(srcs))
    /\ LET r == create_item_body(db, disk, data, srcs, inject)
       IN /\ db' = get_conn(db, r)
          /\ disk' = r.fs
          /\ last' = Record("add_item", r, db.seqItems + 1, FALSE, 0)
    /\ UNCHANGED <<today, shown>>

UpdateItem ==
  \E item_id \in ItemIds(db), data \in ItemData, inject \in BOOLEAN :
    /\ Room(1)
    /\ LET r == update_item(db, disk, item_id, data, inject)
       IN /\ db' = get_conn(db, r)
          /\ last' = Record("update_item", r, item_id, FALSE, 0)
          /\ shown' = IF r.err = "none"
                      THEN Armed(shown, {a.id : a \in {b \in r.d.alerts : b.item_id = item_id}})
                      ELSE shown
    /\ UNCHANGED <<disk, today>>

DeleteItem ==
  \E item_id \in ItemIds(db) :
    /\ Room(1)
    /\ LET files == list_files(db, item_id)
           r == delete_item(db, disk, item_id)
       IN /\ db' = get_conn(db, r)
          /\ disk' = IF r.err = "none" THEN RemoveAll(disk, files) ELSE disk
          /\ last' = Record("delete_item", r, item_id, FALSE, 0)
          /\ shown' = IF r.err = "none"
                      THEN Armed(shown, {a.id : a \in {b \in db.alerts : b.item_id = item_id}})
                      ELSE shown
    /\ UNCHANGED today

ImportFiles ==
  \E item \in db.items, srcs \in SrcLists :
    /\ Len(srcs) > 0
    /\ Room(Len(srcs))
    /\ LET r == AttachLoop(Ok(db, disk, 0), item.id, srcs, 1)
       IN /\ db' = get_conn(db, r)
          /\ disk' = r.fs
          /\ last' = Record("add_file", r, item.id, FALSE, 0)
    /\ UNCHANGED <<today, shown>>

DeleteFile ==
  \E file_id \in FileIds(db) :
    /\ Room(1)
    /\ LET r == delete_file(db, disk, file_id)
       IN /\ db' = get_conn(db, r)
          /\ last' = Record("delete_file", r, file_id, FALSE, 0)
    /\ UNCHANGED <<disk, today, shown>>

NotifyDueAlerts ==
  \E failAt \in 0..Len(list_due_alerts(db)) :
    /\ LET r == check_due(db, disk, failAt)
       IN /\ db' = get_conn(db, r)
          /\ last' = Record("check_due", r, 0,
                            last.op = "check_due" /\ last.ok,
                            IF last.op = "check_due" /\ last.ok THEN last.ret ELSE 0)
    /\ shown' = Notified(shown, Toasted(list_due_alerts(db), failAt))
    /\ UNCHANGED <<disk, today>>

Tick ==
  /\ today < MaxToday
  /\ today' = today + 1
  /\ last' = [op |-> "tick", ok |-> TRUE, err |-> "none", pre |-> db, arg |-> 0,
              ret |-> 0, again |-> FALSE, prevRet |-> 0]
  /\ UNCHANGED <<db, disk, shown>>

Next ==
  \/ CreateItem
  \/ UpdateItem
  \/ DeleteItem
  \/ ImportFiles
  \/ DeleteFile
  \/ NotifyDueAlerts
  \/ Tick

Spec == Init /\ [][Next]_vars

(* The alert timer of main.py fires every minute for as long as the       *)
(* application runs: the scan is never postponed for ever.                *)
LiveSpec == Init /\ [][Next]_vars /\ WF_vars(NotifyDueAlerts)

(* The same program with the history of emitted notifications recorded.   *)
NotifyInit ==
  /\ shown = [id \in AlertIdRange |-> 0]
  /\ db = EmptyDb
  /\ disk = {}
  /\ today = 0
  /\ last = [op |-> "init", ok |-> TRUE, err |-> "none", pre |-> EmptyDb, arg |-> 0,
             ret |-> 0, again |-> FALSE, prevRet |-> 0]

NotifySpec == NotifyInit /\ [][Next]_vars

(* ------------- the read-only queries on stored tables ------------------ *)
QueryLabels ==
  {[title |-> Laptop, store |-> Fnac, category |-> Tech],
   [title |-> Desk, store |-> Ikea, category |-> Home],
   [title |-> Desk, store |-> Fnac, category |-> Home]}

QueryDates ==
  {[purchase_date |-> 2, return_until |-> 0, warranty_until |-> 0],
   [purchase_date |-> 1, return_until |-> 1 + ReturnDays, warranty_until |-> 1 + WarrantyDays],
   [purchase_date |-> 1, return_until |-> 0, warranty_until |-> 1 + WarrantyDays]}

QueryItemData ==
  {l @@ dt @@ [total_amount |-> Amount] : l \in QueryLabels, dt \in QueryDates}

RECURSIVE Stored_items(_)
Stored_items(datas) ==
  IF datas = <<>> THEN EmptyDb
  ELSE add_item(Stored_items(SubSeq(datas, 1, Len(datas) - 1)), {},
                datas[Len(datas)], <<>>, FALSE).d

ItemTables == {Stored_items(datas) : datas \in UNION {[1..n -> QueryItemData] : n \in 0..MaxRows}}

AuditTables ==
  {[EmptyDb EXCEPT !.audit = [k \in 1..Len(tss) |->
                                [action |-> "item_deleted", details |-> [item_id |-> 1],
                                 ts |-> tss[k]]]] :
     tss \in {t \in UNION {[1..n -> 0..MaxTs] : n \in 1..MaxLog} :
               \A k \in 1..(Len(t) - 1) : t[k] <= t[k + 1]}}

TextFilters == {<<>>, <<"l", "a", "p">>, <<"e", "a">>, <<"_">>}

NoFilter == [k \in {} |-> 0]

QueryFilters ==
  {f \in {t @@ st @@ c @@ sd @@ e @@ r @@ w :
            t \in {NoFilter} \cup {[text |-> v] : v \in TextFilters},
            st \in {NoFilter, [store |-> Ikea]},
            c \in {NoFilter, [category |-> Home]},
            sd \in {NoFilter, [start |-> 2]},
            e \in {NoFilter, [end |-> 1]},
            r \in {NoFilter, [due_return |-> 1]},
            w \in {NoFilter, [due_warranty |-> 1]}} :
     Cardinality(DOMAIN f) <= MaxFilters}

QueryInit ==
  /\ db \in ItemTables \cup AuditTables
  /\ disk = {}
  /\ today \in 0..MaxToday
  /\ shown = NoHistory
  /\ last = [op |-> "init", ok |-> TRUE, err |-> "none", pre |-> EmptyDb, arg |-> 0,
             ret |-> 0, again |-> FALSE, prevRet |-> 0]

ReloadItems ==
  \E filters \in QueryFilters :
    /\ last.op = "init"
    /\ db \in ItemTables
    /\ last' = Record("list_items", Ok(db, disk, list_items(db, filters)), filters, FALSE, 0)
    /\ UNCHANGED <<db, disk, today, shown>>

RefreshDashboard ==
  /\ last.op = "init"
  /\ db \in ItemTables
  /\ last' = Record("count_stats", Ok(db, disk, count_stats(db)), 0, FALSE, 0)
  /\ UNCHANGED <<db, disk, today, shown>>

RefreshRecentActions ==
  /\ last.op = "init"
  /\ db \in AuditTables
  /\ last' = Record("recent_actions", Ok(db, disk, recent_actions(db)), 0, FALSE, 0)
  /\ UNCHANGED <<db, disk, today, shown>>

QueryNext == ReloadItems \/ RefreshDashboard \/ RefreshRecentActions

QuerySpec == QueryInit /\ [][QueryNext]_vars

(* ------- the functions of models.py called on stored tables ------------ *)
FileData == [path : {[dir |-> 0, name |-> "c1"]}]

FileLists == {<<>>} \cup {<<file_data>> : file_data \in FileData}

RECURSIVE Stored_rows(_)
Stored_rows(rows) ==
  IF rows = <<>> THEN EmptyDb
  ELSE add_item(Stored_rows(SubSeq(rows, 1, Len(rows) - 1)), {},
                rows[Len(rows)].data, rows[Len(rows)].files, FALSE).d

StoredTables ==
  {Stored_rows(rows) :
     rows \in UNION {[1..n -> [data : ItemData, files : FileLists]] : n \in 0..MaxRows}}

CallInit ==
  /\ today \in 0..MaxToday
  /\ db \in StoredTables \cup {check_due(d, {}, 0).d : d \in StoredTables}
  /\ disk = {}
  /\ shown = NoHistory
  /\ last = [op |-> "init", ok |-> TRUE, err |-> "none", pre |-> EmptyDb, arg |-> 0,
             ret |-> 0, again |-> FALSE, prevRet |-> 0]

AddItem ==
  \E data \in FieldDicts, files \in FileLists :
    /\ last.op = "init"
    /\ LET r == add_item(db, disk, data, files, FALSE)
       IN /\ db' = get_conn(db, r)
          /\ last' = Record("models.add_item", r, data, FALSE, 0)
    /\ UNCHANGED <<disk, today, shown>>

AddFile ==
  \E item_id \in ItemIds(db), file_data \in FileData :
    /\ last.op = "init"
    /\ LET r == add_file(db, disk, item_id, file_data)
       IN /\ db' = get_conn(db, r)
          /\ last' = Record("models.add_file", r, [item_id |-> item_id], FALSE, 0)
    /\ UNCHANGED <<disk, today, shown>>

DeleteItemById ==
  \E item_id \in ItemIds(db) :
    /\ last.op = "init"
    /\ LET r == delete_item(db, disk, item_id)
       IN /\ db' = get_conn(db, r)
          /\ last' = Record("models.delete_item", r, [item_id |-> item_id], FALSE, 0)
    /\ UNCHANGED <<disk, today, shown>>

SyncAlerts ==
  \E item_id \in ItemIds(db), return_until \in Days, warranty_until \in Days :
    /\ last.op = "init"
    /\ LET once == sync_alerts(db, disk, item_id, return_until, warranty_until)
           twice == IF once.err # "none" THEN once
                    ELSE sync_alerts(once.d, once.fs, item_id, return_until, warranty_until)
       IN /\ db' = get_conn(db, twice)
          /\ last' = Record("_sync_alerts", [twice EXCEPT !.ret = once.d.alerts],
                            [item_id |-> item_id, return_until |-> return_until,
                             warranty_until |-> warranty_until], TRUE, 0)
    /\ UNCHANGED <<disk, today, shown>>

CallNext == AddItem \/ AddFile \/ SyncAlerts \/ DeleteItemById

CallSpec == CallInit /\ [][CallNext]_vars

(* ======================= properties of the core ======================== *)
AlertsOf(d, item_id) == {a \in d.alerts : a.item_id = item_id}

FilesOf(d, item_id) == {f \in d.files : f.item_id = item_id}

IsPrefix(s, t) == Len(s) <= Len(t) /\ SubSeq(t, 1, Len(s)) = s

UpdatedBefore(d, item_id) ==
  \E k \in 1..Len(d.audit) :
    d.audit[k].action = "item_updated" /\ d.audit[k].details.item_id = item_id

(* C1: an item on which update_item has just succeeded has exactly two     *)
(* alert rows, one of type return and one of type warranty, however many   *)
(* times it was updated before.                                            *)
C1_UpdateLeavesTwoAlerts ==
  (last.op = "update_item" /\ last.ok) =>
    /\ Cardinality(AlertsOf(db, last.arg)) = 2
    /\ {a.type : a \in AlertsOf(db, last.arg)} = AlertTypes

C1_Witness ==
  /\ last.op = "update_item" /\ last.ok
  /\ UpdatedBefore(last.pre, last.arg)
  /\ Cardinality(AlertsOf(db, last.arg)) = 2

(* C2: in every committed state there is at most one alert row for each    *)
(* (item, kind) pair.                                                      *)
C2_OneAlertPerItemKind ==
  \A a, b \in db.alerts : (a.item_id = b.item_id /\ a.type = b.type) => a = b

C2_Witness ==
  /\ last.op = "update_item" /\ last.ok
  /\ Cardinality(db.alerts) = 4
  /\ \E a \in db.alerts : a.sent_at # NULL

(* C3: update_item on an existing item leaves that item's return alert     *)
(* unsent, also when it had been marked sent and the return deadline is    *)
(* unchanged.                                                              *)
C3_UpdateRearmsReturnAlert ==
  (last.op = "update_item" /\ last.ok) =>
    /\ \E a \in AlertsOf(db, last.arg) : a.type = "return"
    /\ \A a \in AlertsOf(db, last.arg) : a.type = "return" => a.sent_at = NULL

C3_Witness ==
  /\ last.op = "update_item" /\ last.ok
  /\ \E old \in AlertsOf(last.pre, last.arg), new \in AlertsOf(db, last.arg) :
       /\ old.type = "return" /\ new.type = "return"
       /\ old.sent_at # NULL
       /\ old.due_on = new.due_on
       /\ new.sent_at = NULL

(* C4: when check_due returns and is called again with no other operation  *)
(* and no change of date in between, the second call returns 0.            *)
C4_SecondScanReturnsZero ==
  (last.op = "check_due" /\ last.ok /\ last.again) => last.ret = 0

C4_Witness ==
  /\ last.op = "check_due" /\ last.ok /\ last.again
  /\ last.prevRet > 0
  /\ last.ret = 0

(* C5: delete_item on an existing item removes all its file and alert      *)
(* rows, leaves the file and alert rows of every other item unchanged and  *)
(* keeps every earlier audit entry.                                        *)
C5_DeleteCascadesKeepsAudit ==
  (last.op = "delete_item" /\ last.ok /\ ItemExists(last.pre, last.arg)) =>
    /\ FilesOf(db, last.arg) = {}
    /\ AlertsOf(db, last.arg) = {}
    /\ db.files = last.pre.files \ FilesOf(last.pre, last.arg)
    /\ db.alerts = last.pre.alerts \ AlertsOf(last.pre, last.arg)
    /\ IsPrefix(last.pre.audit, db.audit)

C5_Witness ==
  /\ last.op = "delete_item" /\ last.ok /\ ItemExists(last.pre, last.arg)
  /\ AlertsOf(last.pre, last.arg) # {}
  /\ db.alerts # {}
  /\ \E k \in 1..Len(last.pre.audit) : last.pre.audit[k].details = [item_id |-> last.arg]

UnsentDue(d) == {a \in d.alerts : a.sent_at = NULL /\ a.due_on <= today}

SentIn(d, alert_id) == \E b \in d.alerts : b.id = alert_id /\ b.sent_at # NULL

(* C6: if showing the notification for one due alert fails during          *)
(* check_due, the scan still continues and every alert that was due and    *)
(* unsent at its start is marked sent in the committed state.              *)
C6_ToastFailureStillMarksSent ==
  (last.op = "check_due" /\ last.err = "ToastError") =>
    \A a \in UnsentDue(last.pre) : SentIn(db, a.id)

(* C7: an operation run inside one get_conn block commits as one unit: if  *)
(* any of its statements or steps fails, the committed items, files,       *)
(* alerts and audit tables are what they were before it began.             *)
C7_FailedOperationCommitsNothing ==
  ~last.ok =>
    /\ db.items = last.pre.items
    /\ db.files = last.pre.files
    /\ db.alerts = last.pre.alerts
    /\ db.audit = last.pre.audit

C7_Witness ==
  /\ last.op = "add_item" /\ last.err = "FileNotFoundError"
  /\ last.pre.items # {}
  /\ db = last.pre

(* C8: update_item with an id that matches no item fails with a NotFound   *)
(* error and leaves the items, alerts and audit tables unchanged.          *)
C8_UpdateAbsentIsNotFound ==
  (last.op = "update_item" /\ ~ItemExists(last.pre, last.arg)) =>
    /\ last.err = "NotFound"
    /\ db.items = last.pre.items
    /\ db.alerts = last.pre.alerts
    /\ db.audit = last.pre.audit

ReturnAlertUnsent(d, item_id) ==
  \E a \in AlertsOf(d, item_id) : a.type = "return" /\ a.sent_at = NULL

ReturnAlertSent(d, item_id) ==
  \E a \in AlertsOf(d, item_id) : a.type = "return" /\ a.sent_at # NULL

InReturnWindow(d) == {i \in d.items : i.return_until <= today + ReturnDays}

(* C9 as stated: returns_due counts the items whose return deadline is at  *)
(* most today+7 days and whose return alert is unsent, and no item whose   *)
(* return alert check_due has marked sent.                                 *)
C9_ReturnsDueExcludesSent ==
  count_stats(db).returns_due =
    Cardinality({i \in InReturnWindow(db) : ReturnAlertUnsent(db, i.id)})

(* C9 amended: returns_due counts every item whose return deadline is at   *)
(* most today+7 days, the ones whose return alert is unsent and the ones   *)
(* whose return alert check_due has marked sent alike.                     *)
C9_ReturnsDueCountsSentAndUnsent ==
  count_stats(db).returns_due =
    Cardinality({i \in InReturnWindow(db) : ReturnAlertUnsent(db, i.id)})
    + Cardinality({i \in InReturnWindow(db) : ReturnAlertSent(db, i.id)})

C9_Witness ==
  /\ last.op = "check_due" /\ last.ok /\ last.ret > 0
  /\ count_stats(last.pre).returns_due = 2
  /\ count_stats(db).returns_due = 2
  /\ \E i \in InReturnWindow(db) : ReturnAlertSent(db, i.id) /\ ReturnAlertUnsent(last.pre, i.id)

(* C10: check_due returns the number of alerts that had a null sent        *)
(* timestamp and a due date on or before the current date when it started, *)
(* marks exactly those sent, and leaves every other alert as it was.       *)
C10_ScanCountsAndMarksDue ==
  (last.op = "check_due" /\ last.ok) =>
    /\ last.ret = Cardinality(UnsentDue(last.pre))
    /\ {a.id : a \in db.alerts} = {a.id : a \in last.pre.alerts}
    /\ \A old \in last.pre.alerts :
         IF old \in UnsentDue(last.pre)
         THEN SentIn(db, old.id)
         ELSE old \in db.alerts

C10_Witness ==
  /\ last.op = "check_due" /\ last.ok /\ last.ret = 1
  /\ \E r, w \in db.alerts :
       /\ r.item_id = w.item_id
       /\ r.type = "return" /\ r.sent_at # NULL /\ r \notin last.pre.alerts
       /\ w.type = "warranty" /\ w.due_on > today /\ w.sent_at = NULL

(* C11: the audit log is append-only: no operation removes or changes an  *)
(* entry, so the audit log after any operation, failed or not, starts     *)
(* with the whole audit log as it was before that operation.              *)
C11_AuditAppendOnly == IsPrefix(last.pre.audit, db.audit)

C11_Witness ==
  /\ last.op = "delete_item" /\ last.ok
  /\ Len(last.pre.audit) = 2
  /\ Len(db.audit) = 3
  /\ SubSeq(db.audit, 1, 2) = last.pre.audit

TablesChanged(d, e) == d.items # e.items \/ d.files # e.files \/ d.alerts # e.alerts

(* C12: every operation that commits a change to the items, files or      *)
(* alerts tables (item creation, update and deletion, file addition and   *)
(* deletion, and the marking of alerts as sent by check_due) appends at   *)
(* least one audit entry in the same transaction.                         *)
C12_EveryChangeIsAudited ==
  (last.ok /\ TablesChanged(last.pre, db)) => Len(db.audit) > Len(last.pre.audit)

(* C13: in every committed state reached through item creation with       *)
(* attachments, file import and item deletion, the path of every file row *)
(* names a file that exists in the archive; and when copy_file_to_item    *)
(* fails for an attachment, the operation commits no file row.            *)
C13_FileRowsHaveStoredFiles ==
  /\ \A f \in db.files : PathExists(disk, f.path)
  /\ last.err = "FileNotFoundError" => db.files = last.pre.files

C13_Witness ==
  /\ last.op = "add_file" /\ last.err = "FileNotFoundError"
  /\ db.files # {}
  /\ db.files = last.pre.files
  /\ \A f \in db.files : PathExists(disk, f.path)

RowsAt(d, item_id, path) == {f \in FilesOf(d, item_id) : f.path = path}

SecondImport ==
  /\ last.op = "add_file" /\ last.ok
  /\ \E f \in FilesOf(db, last.arg) : f.id = last.ret /\ RowsAt(last.pre, last.arg, f.path) # {}

(* C14: importing a source file that is byte-identical to one already     *)
(* imported for the same item leaves exactly one stored file for them in  *)
(* that item's directory, written once, and one more file row with a new  *)
(* id and the same path as the earlier row.                               *)
C14_IdenticalImportStoredOnce ==
  SecondImport =>
    \E f \in FilesOf(db, last.arg) :
      /\ f.id = last.ret
      /\ f \notin last.pre.files
      /\ RowsAt(db, last.arg, f.path) = RowsAt(last.pre, last.arg, f.path) \cup {f}
      /\ \A g \in RowsAt(last.pre, last.arg, f.path) : g.id # f.id
      /\ Cardinality({s \in disk : s.dir = last.arg /\ s.name = f.path.name}) = 1
      /\ \A s \in disk : (s.dir = last.arg /\ s.name = f.path.name) => s.gen = 1

C14_Witness ==
  /\ SecondImport
  /\ Cardinality(FilesOf(db, last.arg)) = 2
  /\ Cardinality({f.path : f \in FilesOf(db, last.arg)}) = 1
  /\ Cardinality({s \in disk : s.dir = last.arg}) = 1

Pending(alert_id) == \E a \in UnsentDue(db) : a.id = alert_id

Gone(alert_id) == \A a \in db.alerts : a.id # alert_id

Postponed(alert_id) == \E a \in db.alerts : a.id = alert_id /\ a.sent_at = NULL /\ a.due_on > today

StaysPendingOrHandled ==
  \A a \in UnsentDue(db) :
    \/ a \in db'.alerts /\ a.due_on <= today'
    \/ last'.op = "check_due" /\ SentIn(db', a.id)
    \/ last'.op \in {"update_item", "delete_item"} /\ last'.ok /\ last'.arg = a.item_id

(* C15: an alert that is unsent and due stays unsent and due over every   *)
(* step until check_due marks it sent or its item is updated or deleted,  *)
(* and, check_due being invoked again and again by the timer, every such  *)
(* alert is eventually marked sent, unless its item is deleted or an      *)
(* update moves its deadline past the current date.                       *)
C15_DueAlertEventuallySent ==
  /\ [][StaysPendingOrHandled]_vars
  /\ \A alert_id \in AlertIdRange :
       Pending(alert_id) ~> (SentIn(db, alert_id) \/ Gone(alert_id) \/ Postponed(alert_id))

(* C16: between two consecutive re-arms of an alert (or from its          *)
(* creation) the alert is notified at most once, over any number of       *)
(* check_due calls, and an alert is never marked sent without its         *)
(* notification having been emitted first.                                *)
C16_NotifiedOncePerArming ==
  \A a \in db.alerts :
    /\ shown[a.id] <= 1
    /\ a.sent_at # NULL => shown[a.id] >= 1

RowsOf(rows) == {rows[k] : k \in 1..Len(rows)}

Contains(text, str) ==
  \E i \in 1..(Len(str) + 1) :
    /\ i + Len(text) - 1 <= Len(str)
    /\ \A j \in 1..Len(text) : Fold(str[i + j - 1]) = Fold(text[j])

Satisfies(i, filters) ==
  /\ "text" \in DOMAIN filters =>
       \/ Contains(filters.text, i.title)
       \/ Contains(filters.text, i.store)
       \/ Contains(filters.text, i.category)
  /\ "store" \in DOMAIN filters => i.store = filters.store
  /\ "category" \in DOMAIN filters => i.category = filters.category
  /\ "start" \in DOMAIN filters => i.purchase_date >= filters.start
  /\ "end" \in DOMAIN filters => i.purchase_date <= filters.end
  /\ "due_return" \in DOMAIN filters => i.return_until <= filters.due_return
  /\ "due_warranty" \in DOMAIN filters => i.warranty_until <= filters.due_warranty

(* C18: list_items(filters) returns exactly the items that satisfy every  *)
(* filter present: the text occurs as a substring (letter case ignored,   *)
(* as in 'lap' selecting 'Laptop') of the title, store or category; the   *)
(* store and the category are equal to the given ones; the purchase date  *)
(* is within start..end; the return and warranty deadlines are at most    *)
(* due_return and due_warranty.  An absent filter excludes nothing.       *)
C18_FiltersSelectExactly ==
  last.op = "list_items" =>
    /\ RowsOf(last.ret) = {i \in db.items : Satisfies(i, last.arg)}
    /\ Len(last.ret) = Cardinality(RowsOf(last.ret))

(* C19: returns_due is the number of items whose return deadline lies     *)
(* from today through today+7 days and warranties_due the number of items *)
(* whose warranty deadline lies from today through today+60 days; an item *)
(* whose deadline is outside the window is not counted.                   *)
C19_DueCountsWithinWindow ==
  last.op = "count_stats" =>
    /\ last.ret.returns_due =
         Cardinality({i \in db.items : today <= i.return_until
                                        /\ i.return_until <= today + ReturnDays})
    /\ last.ret.warranties_due =
         Cardinality({i \in db.items : today <= i.warranty_until
                                        /\ i.warranty_until <= today + WarrantyDays})

(* C20: recent_actions holds min(5, number of audit entries) entries, the *)
(* most recently appended ones, newest first, also when several entries  *)
(* were appended within the same second.                                  *)
C20_RecentActionsNewestFirst ==
  last.op = "recent_actions" =>
    LET n == Len(db.audit)
        m == IF n < RecentLimit THEN n ELSE RecentLimit
    IN /\ Len(last.ret) = m
       /\ \A k \in 1..m : last.ret[k].id = n - k + 1

(* C21: add_item with a field dictionary that lacks a required field      *)
(* (title, store, category, purchase date, amount, return deadline or     *)
(* warranty deadline) fails, and no item row, alert row, file row or      *)
(* audit entry is stored for it.                                          *)
C21_MissingFieldStoresNothing ==
  (last.op = "models.add_item" /\ RequiredFields \ DOMAIN last.arg # {}) =>
    /\ ~last.ok
    /\ db.items = last.pre.items
    /\ db.alerts = last.pre.alerts
    /\ db.files = last.pre.files
    /\ db.audit = last.pre.audit

C21_Witness ==
  /\ last.op = "models.add_item" /\ last.err = "KeyError"
  /\ "title" \notin DOMAIN last.arg
  /\ last.pre.items # {}
  /\ db = last.pre

(* C22: alert synchronization is idempotent: for any item and pair of      *)
(* deadlines, _sync_alerts run twice in a row with the same deadlines      *)
(* leaves the alerts table as one run leaves it: same rows, same due       *)
(* dates, same sent timestamps.                                            *)
C22_SyncAlertsIdempotent ==
  (last.op = "_sync_alerts" /\ last.ok) => db.alerts = last.ret

C22_Witness ==
  /\ last.op = "_sync_alerts" /\ last.ok
  /\ db.alerts = last.ret
  /\ db.alerts # last.pre.alerts
  /\ Cardinality(db.alerts) = 4
  /\ \E old \in AlertsOf(last.pre, last.arg.item_id) :
       /\ old.sent_at # NULL
       /\ old.due_on # last.arg.return_until
       /\ \E new \in db.alerts : new.id = old.id /\ new.sent_at = NULL
                                   /\ new.due_on = last.arg.return_until

Deadline(i, kind) == IF kind = "return" THEN i.return_until ELSE i.warranty_until

(* C23: in every committed state each existing item has, for each kind in  *)
(* {return, warranty}, an alert of that kind whose due_on equals the       *)
(* item's current deadline of that kind, right after add_item and after    *)
(* every update_item.                                                      *)
C23_AlertsFollowDeadlines ==
  \A i \in db.items : \A kind \in AlertTypes :
    \E a \in AlertsOf(db, i.id) : a.type = kind /\ a.due_on = Deadline(i, kind)

C23_Witness ==
  /\ last.op = "update_item" /\ last.ok
  /\ Cardinality(db.items) = 2
  /\ \E old \in last.pre.items, new \in db.items :
       /\ old.id = last.arg /\ new.id = last.arg
       /\ old.return_until # new.return_until
       /\ old.warranty_until # new.warranty_until
       /\ \A kind \in AlertTypes :
            \E a \in AlertsOf(db, new.id) : a.type = kind /\ a.due_on = Deadline(new, kind)

(* C24: in every committed state every alert row and every file row       *)
(* references an item that exists: add_file, add_item with files and      *)
(* alert synchronization for an id that matches no item fail instead of   *)
(* storing an orphan row, and delete_item leaves no orphan.                *)
C24_NoOrphanRows ==
  /\ \A a \in db.alerts : ItemExists(db, a.item_id)
  /\ \A f \in db.files : ItemExists(db, f.item_id)
  /\ (/\ last.op \in {"models.add_file", "_sync_alerts"}
      /\ ~ItemExists(last.pre, last.arg.item_id)) =>
       /\ ~last.ok
       /\ db.alerts = last.pre.alerts
       /\ db.files = last.pre.files

C24_Witness ==
  /\ last.op = "models.add_file" /\ last.err = "IntegrityError"
  /\ ~ItemExists(last.pre, last.arg.item_id)
  /\ db.files # {} /\ db.alerts # {}
  /\ db = last.pre

(* C25: check_due changes nothing but the sent timestamp of the alerts     *)
(* that were due and unsent when it started: the items, files and audit    *)
(* tables, every alert's item, kind and due date, the sent timestamp of    *)
(* every other alert and the set of alert rows are unchanged; and a sent   *)
(* timestamp goes from set to null only through the resynchronization of   *)
(* a successful update_item of the alert's item, never through check_due.  *)
C25_ScanWritesOnlySentAt ==
  /\ last.op = "check_due" =>
       /\ db.items = last.pre.items
       /\ db.files = last.pre.files
       /\ db.audit = last.pre.audit
       /\ {a.id : a \in db.alerts} = {a.id : a \in last.pre.alerts}
       /\ \A old \in last.pre.alerts :
            \E new \in db.alerts :
              /\ new.id = old.id /\ new.item_id = old.item_id
              /\ new.type = old.type /\ new.due_on = old.due_on
              /\ old \notin UnsentDue(last.pre) => new.sent_at = old.sent_at
  /\ \A old \in last.pre.alerts : \A new \in db.alerts :
       (new.id = old.id /\ old.sent_at # NULL /\ new.sent_at = NULL) =>
         (last.op = "update_item" /\ last.ok /\ last.arg = old.item_id)

C25_Witness ==
  /\ last.op = "check_due" /\ last.ok
  /\ \E marked \in UnsentDue(last.pre) : SentIn(db, marked.id)
  /\ \E sent \in last.pre.alerts : sent.sent_at # NULL /\ sent \in db.alerts
  /\ \E later \in last.pre.alerts :
       later.sent_at = NULL /\ later.due_on > today /\ later \in db.alerts

Appended(d, e) == {e.audit[k] : k \in (Len(d.audit) + 1)..Len(e.audit)}

(* C26: every 'item_deleted' audit entry corresponds to an item that       *)
(* existed and was removed by that operation: delete_item with an id that  *)
(* matches no item leaves the items, files and alerts tables unchanged and *)
(* does not record a deletion in the audit log.                            *)
C26_DeletionEntriesAreDeletions ==
  last.op = "models.delete_item" =>
    /\ \A entry \in Appended(last.pre, db) :
         entry.action = "item_deleted" =>
           /\ ItemExists(last.pre, entry.details.item_id)
           /\ ~ItemExists(db, entry.details.item_id)
    /\ ~ItemExists(last.pre, last.arg.item_id) =>
         /\ db.items = last.pre.items
         /\ db.files = last.pre.files
         /\ db.alerts = last.pre.alerts
         /\ \A entry \in Appended(last.pre, db) : entry.action # "item_deleted"

====
